---- MODULE Spec2Model ----
(***************************************************************************)
(* Model of main.js of the GalacticBonk site: the DOMContentLoaded startup  *)
(* sequence, the canvas universe (initUniverse), the DOM widgets (FAQ,     *)
(* menu, chart, tweets, clipboard, wallet), the scroll handlers (rocket,   *)
(* progress bar, DOM mascot) and the 3D mascot loop (initDog3D.animate).   *)
(*                                                                         *)
(* Numbers.  JavaScript numbers are modelled in fixed point:               *)
(*   lengths, positions, speeds : thousandths of a pixel (per frame)       *)
(*   alpha                      : thousandths                              *)
(*   nebula angle, scaleX       : millionths                               *)
(*   Math.random()              : thousandths, a value of RandNums         *)
(*   scroll fraction, pointer   : thousandths                              *)
(*   mascot rotation            : thousandths of a degree                  *)
(*   mascot scale               : thousandths                              *)
(* window.innerWidth / innerHeight, w, h and the canvas size are whole     *)
(* pixels, as the browser reports them.                                    *)
(*                                                                         *)
(* Math.random().  A handler that calls Math.random() takes a stream       *)
(* `seed`; its k-th call (k = 0, 1, ...) returns Rnd(seed, k).  The        *)
(* specifications enumerate the seeds.                                     *)
(*                                                                         *)
(* Object identity.  Every particle object carries the serial number `id`  *)
(* of its allocation (nextId), so that "the same object" can be stated.    *)
(***************************************************************************)
EXTENDS Integers, Sequences, FiniteSets

VARIABLES
  started,        \* the DOMContentLoaded handler has run
  innerWidth,     \* window.innerWidth  (px)
  innerHeight,    \* window.innerHeight (px)
  w, h,           \* initUniverse: let w, h
  canvasW,        \* canvas.width
  canvasH,        \* canvas.height
  stars,          \* initUniverse: let stars = []
  nebulas,        \* initUniverse: let nebulas = []
  comets,         \* initUniverse: let comets = []
  supernovas,     \* initUniverse: let supernovas = []
  pendingDraw,    \* requestAnimationFrame(draw) callbacks not yet run
  nextId,         \* serial number of the next particle object
  frames,         \* number of draw passes run so far
  events,         \* number of resize / click / supernova-timer events so far
  pendingAnimate, \* requestAnimationFrame(animate) callbacks not yet run
  dogPos,         \* initDog3D: dog.position <<x, y>>, thousandths of a scene unit
  dogVel,         \* initDog3D: dogVelocity <<x, y>>, thousandths of a unit per second
  clockElapsed,   \* initDog3D: clock.elapsedTime, ms
  rendererSize,   \* initDog3D: the size <<width, height>> given to renderer.setSize
  copyStatus,     \* initCopyAddress: statusEl.textContent
  writes,         \* navigator.clipboard.writeText promises not yet settled
  clipboard,      \* the text on the system clipboard
  timers,         \* setTimeout callbacks of initCopyAddress: ms left, in order of creation
  statusAge,      \* ms since statusEl.textContent was last set by a settled write
  uncaught,       \* errors thrown out of the copy button's click listener so far
  copyFailures,   \* clipboard copies that have failed so far
  copyClicks,     \* clicks on the copy button so far
  env,            \* the page's markup and libraries: which nodes and globals exist
  installed,      \* how many times each group of listeners has been registered
  startupError,   \* the initializer that threw out of the DOMContentLoaded handler, or ""
  faqOpen,        \* per FAQ item: item.classList contains 'open'
  faqAria,        \* per FAQ item: the question's aria-expanded attribute ("" when absent)
  faqMaxHeight,   \* per FAQ item: answer.style.maxHeight ("" when not set)
  menuOpen,       \* menuList.classList contains 'open'
  menuAria,       \* the toggle's aria-expanded attribute ("" when absent)
  tweets,         \* the <li> children of the tweet feed: indexes into the tweets array
  charts,         \* Chart objects constructed on the tokenChart canvas
  solana,         \* window.solana is defined
  walletLabel,    \* connectBtn.textContent
  walletDisabled, \* connectBtn.disabled
  walletStatus,   \* status.textContent of initWalletConnect, a sequence of characters
  connects,       \* window.solana.connect() promises not yet settled
  alerts,         \* the messages shown by alert(), in order
  scrollTop,      \* window.pageYOffset || doc.scrollTop (px)
  scrollRange,    \* doc.scrollHeight - doc.clientHeight (px)
  heroRect,       \* heroSection.getBoundingClientRect(): <<bottom, height>> (px)
  mouseX, mouseY, \* initUniverse: let mouseX, mouseY
  dogImgLoaded,   \* dogImg.complete && dogImg.naturalWidth > 0
  mascot,         \* the transform of the canvas mascot in the last draw pass
  domDog,         \* dog.style.transform of initDogScroll
  progressHeight, \* progress.style.height of initProgressBar, thousandths of 100%
  rocket,         \* the progress behind heroRocket.style.transform
  mascotLog,      \* the canvas mascot's inputs and transform in every draw pass so far
  animInputs,     \* <<scroll fraction, mouseX, mouseY>> at the last animate pass, <<>> before it
  menuClicks,     \* clicks on the menu toggle so far
  walletClicks,   \* clicks on the enabled wallet button so far
  faqClicks       \* per FAQ item: clicks on its question so far

universeVars == <<innerWidth, innerHeight, w, h, canvasW, canvasH, stars, nebulas,
                  comets, supernovas, pendingDraw, nextId, frames, events>>

dogVars == <<pendingAnimate, dogPos, dogVel, clockElapsed, rendererSize>>

copyVars == <<copyStatus, writes, clipboard, timers, statusAge, uncaught, copyFailures,
              copyClicks>>

faqVars == <<faqOpen, faqAria, faqMaxHeight>>

menuVars == <<menuOpen, menuAria>>

walletVars == <<solana, walletLabel, walletDisabled, walletStatus, connects, alerts>>

scrollVars == <<scrollTop, scrollRange, heroRect, domDog, progressHeight, rocket>>

mascotVars == <<mouseX, mouseY, dogImgLoaded, mascot, mascotLog, animInputs>>

pageVars == <<env, installed, startupError, tweets, charts>>

widgetState == <<faqVars, menuVars, walletVars, menuClicks, walletClicks, faqClicks>>

vars == <<started, universeVars, dogVars, copyVars, pageVars, widgetState, scrollVars,
          mascotVars>>

----------------------------------------------------------------------------
(* Arithmetic helpers *)

Min(a, b) == IF a < b THEN a ELSE b

Max(a, b) == IF a > b THEN a ELSE b

\* Math.floor of the quotient a / b for a >= 0, b > 0
Floor(a, b) == a \div b

----------------------------------------------------------------------------
(* Math.random() *)

\* the values Math.random() takes in this model, in thousandths
RandNums == <<0, 250, 500, 750, 999>>

\* the k-th value of the stream `seed`
Rnd(seed, k) == RandNums[((seed + k) % Len(RandNums)) + 1]

\* Math.cos(-(PI/4 + r*PI/4)) in thousandths, r a value of RandNums
CosAngle(r) ==
  CASE r = 0   -> 707
    [] r = 250 -> 556
    [] r = 500 -> 383
    [] r = 750 -> 195
    [] OTHER   -> 1

\* Math.sin(-(PI/4 + r*PI/4)) in thousandths, r a value of RandNums
SinAngle(r) ==
  CASE r = 0   -> -707
    [] r = 250 -> -831
    [] r = 500 -> -924
    [] r = 750 -> -981
    [] OTHER   -> -1000

----------------------------------------------------------------------------
(* Program constants of initUniverse *)

STAR_COUNT == 250

MAX_COMETS == 6

NEBULA_DIVISOR == 600

ALPHA_DECREMENT == 15

RADIUS_INCREMENT == 2000

GLOW_FACTOR == 12

----------------------------------------------------------------------------
(* Particle constructors *)

\* the object pushed by one iteration of spawnStars; i is the iteration (0-based)
NewStar(ww, hh, seed, i, id) ==
  LET speed  == 150 + (Rnd(seed, 4 * i) * 750) \div 1000
      radius == 300 + (Rnd(seed, 4 * i + 1) * 1400) \div 1000
      \* alpha.toFixed(3), alpha = 0.4 + (speed / 0.9) * 0.6
      alpha  == 400 + (4 * speed + 3) \div 6
  IN [id |-> id,
      x |-> Rnd(seed, 4 * i + 2) * ww,
      y |-> Rnd(seed, 4 * i + 3) * hh,
      radius |-> radius,
      speed |-> speed,
      color |-> alpha]

\* the array filled by spawnStars(num) from the empty array
SpawnStars(num, ww, hh, seed, firstId) ==
  [i \in 1 .. num |-> NewStar(ww, hh, seed, i - 1, firstId + i - 1)]

\* spawnComet()
SpawnComet(ww, hh, seed, id) ==
  LET rAngle == Rnd(seed, 0)
      speed  == 600 + (Rnd(seed, 1) * 600) \div 1000
  IN [id |-> id,
      x |-> Rnd(seed, 2) * ww + 1000 * ww,
      y |-> (Rnd(seed, 3) * hh) \div 2,
      vx |-> (speed * CosAngle(rAngle)) \div 1000,
      vy |-> -((speed * (-SinAngle(rAngle))) \div 1000),
      life |-> 0,
      maxLife |-> 300000 + Rnd(seed, 4) * 200,
      size |-> 2000 + Rnd(seed, 5) * 2]

\* spawnSupernova()
SpawnSupernova(ww, hh, seed, id) ==
  [id |-> id,
   x |-> (Rnd(seed, 0) * ww * 8) \div 10 + 100 * ww,
   y |-> (Rnd(seed, 1) * hh * 6) \div 10 + 200 * hh,
   radius |-> 0,
   maxRadius |-> 80000 + Rnd(seed, 2) * 120,
   alpha |-> 1000]

\* the object literal of the document click listener
ClickSupernova(clientX, clientY, seed, id) ==
  [id |-> id,
   x |-> 1000 * clientX,
   y |-> 1000 * clientY,
   radius |-> 0,
   maxRadius |-> 80000 + Rnd(seed, 0) * 100,
   alpha |-> 1000]

\* spawnNebula(); k is the number of Math.random() calls made before it and
\* `choice` the index Math.floor(Math.random() * colours.length) of the colour pair
SpawnNebula(ww, hh, seed, k, id) ==
  [id |-> id,
   choice |-> Floor(Rnd(seed, k) * 4, 1000),
   x |-> Rnd(seed, k + 1) * ww,
   y |-> Rnd(seed, k + 2) * hh,
   radius |-> 400 * ww + (Rnd(seed, k + 3) * ww * 6) \div 10,
   angle |-> Rnd(seed, k + 4) * 6283,
   speed |-> 100 + (Rnd(seed, k + 5) * 700) \div 1000,
   scaleX |-> 1000000 + Rnd(seed, k + 6) * 1500]

\* NebCount without Math.max(1, ...)
NebCount_NoMax(ww, hh) == Floor(Min(ww, hh), NEBULA_DIVISOR)

\* onResize: nebCount
NebCount(ww, hh) == Max(1, Floor(Min(ww, hh), NEBULA_DIVISOR))

\* onResize: the nebulas pushed after the stars (which made 4 * STAR_COUNT calls)
SpawnNebulas(ww, hh, seed, firstId) ==
  [i \in 1 .. NebCount(ww, hh) |->
     SpawnNebula(ww, hh, seed, 4 * STAR_COUNT + 7 * (i - 1), firstId + i - 1)]

----------------------------------------------------------------------------
(* draw: the four forEach passes *)

\* nebulas.forEach: n.angle += n.speed; n.scaleX += sin(performance.now()*0.0002)*0.0003
\* `pulse` is the second summand, in millionths
StepNebula(n, pulse) == [n EXCEPT !.angle = @ + n.speed, !.scaleX = @ + pulse]

NebulaPass(list, pulse) == [i \in 1 .. Len(list) |-> StepNebula(list[i], pulse)]

\* stars.forEach: the test s.y > h after s.y += s.speed
StarWraps(s, hh) == s.y + s.speed > 1000 * hh

\* StepStar carrying the overshoot past h over on the wrap, x untouched
StepStar_Carry(s, ww, hh, r) ==
  IF StarWraps(s, hh)
    THEN [s EXCEPT !.y = @ + s.speed - 1000 * hh]
    ELSE [s EXCEPT !.y = @ + s.speed]

\* stars.forEach body; r is the value Math.random() returns if it is called
StepStar(s, ww, hh, r) ==
  IF StarWraps(s, hh)
    THEN [s EXCEPT !.y = 0, !.x = r * ww]
    ELSE [s EXCEPT !.y = @ + s.speed]

\* stars.forEach: the j-th star that wraps makes the j-th Math.random() call
StarPass(list, ww, hh, seed) ==
  [i \in 1 .. Len(list) |->
     StepStar(list[i], ww, hh,
              IF StarWraps(list[i], hh)
                THEN Rnd(seed, Cardinality({j \in 1 .. (i - 1) : StarWraps(list[j], hh)}))
                ELSE 0)]

\* array.splice(index, 1), index 1-based here
Splice(list, k) == [i \in 1 .. (Len(list) - 1) |-> IF i < k THEN list[i] ELSE list[i + 1]]

\* comets.forEach body: c.x += -c.vx; c.y += c.vy; c.life++
StepComet(c) == [c EXCEPT !.x = @ - c.vx, !.y = @ + c.vy, !.life = @ + 1000]

\* CometExpired without the test of c.life
CometExpired_NoLife(c, hh) ==
  \/ c.x < -(c.size * GLOW_FACTOR)
  \/ c.y > 1000 * hh + c.size * GLOW_FACTOR

\* comets.forEach: the removal test
CometExpired(c, hh) ==
  \/ c.life > c.maxLife
  \/ c.x < -(c.size * GLOW_FACTOR)
  \/ c.y > 1000 * hh + c.size * GLOW_FACTOR

\* comets.forEach((c, index) => ...): forEach visits index k = 1 .. n, n the length
\* at the start, skipping an index that is no longer in the array; a splice at
\* index k moves the element at k + 1 to k, which forEach has already passed
RECURSIVE CometPass(_, _, _, _)
CometPass(list, k, n, hh) ==
  IF k > n \/ k > Len(list) THEN list
  ELSE LET c == StepComet(list[k])
       IN IF CometExpired(c, hh)
            THEN CometPass(Splice([list EXCEPT ![k] = c], k), k + 1, n, hh)
            ELSE CometPass([list EXCEPT ![k] = c], k + 1, n, hh)

\* supernovas.forEach body: s.radius += 2; s.alpha -= 0.015
StepSupernova(s) ==
  [s EXCEPT !.radius = @ + RADIUS_INCREMENT, !.alpha = @ - ALPHA_DECREMENT]

\* SupernovaExpired without the test of s.alpha
SupernovaExpired_RadiusOnly(s) == s.radius > s.maxRadius

\* supernovas.forEach: the removal test
SupernovaExpired(s) == s.radius > s.maxRadius \/ s.alpha <= 0

\* supernovas.forEach((s, index) => ...), as CometPass
RECURSIVE SupernovaPass(_, _, _)
SupernovaPass(list, k, n) ==
  IF k > n \/ k > Len(list) THEN list
  ELSE LET s == StepSupernova(list[k])
       IN IF SupernovaExpired(s)
            THEN SupernovaPass(Splice([list EXCEPT ![k] = s], k), k + 1, n)
            ELSE SupernovaPass([list EXCEPT ![k] = s], k + 1, n)

----------------------------------------------------------------------------
(* The page: markup, libraries and the startup sequence *)

\* what a page may or may not have: DOM nodes (by the id or class the
\* initializers look up) and globals
EnvFields ==
  {"universe", "ctx2d", "observer", "menuToggle", "menuList", "chartEl", "chartLib",
   "tweetFeed", "copyBtn", "addressEl", "statusEl", "connectBtn", "walletEl", "faq",
   "rocket", "hero", "progressBar", "dogContainer", "dog3d", "three"}

\* the page with every node and library
AllPresent == [f \in EnvFields |-> TRUE]

\* the page lacking the node or library f
Without(f) == [AllPresent EXCEPT ![f] = FALSE]

\* the FAQ items of the page
FaqItems == {1, 2}

\* the groups of callbacks the initializers register
Groups ==
  {"universe", "documentClick", "observer", "menu", "copy", "wallet", "faq", "rocket",
   "progress", "dogScroll", "dog3d"}

\* the calls of the DOMContentLoaded listener, in order
Initializers ==
  <<"initUniverse", "initScrollAnimations", "initMenuToggle", "initChart",
    "populateTweets", "initCopyAddress", "initWalletConnect", "initFAQ",
    "initRocketScroll", "initProgressBar", "initDogScroll", "initDog3D">>

\* the initializer throws on the page e:
\*   initUniverse          draw() calls ctx.clearRect on the null that getContext('2d') gave
\*   initScrollAnimations  new IntersectionObserver: ReferenceError
\*   initChart             new Chart: ReferenceError
Throws(name, e) ==
  \/ name = "initUniverse" /\ e.universe /\ ~e.ctx2d
  \/ name = "initScrollAnimations" /\ ~e.observer
  \/ name = "initChart" /\ e.chartEl /\ ~e.chartLib

\* the position of an initializer in the sequence
Index(name) == CHOOSE i \in 1 .. Len(Initializers) : Initializers[i] = name

\* the position of the first initializer that throws; Len + 1 when none does
FailIndex(e) ==
  IF \E i \in 1 .. Len(Initializers) : Throws(Initializers[i], e)
    THEN CHOOSE i \in 1 .. Len(Initializers) :
           /\ Throws(Initializers[i], e)
           /\ \A j \in 1 .. (i - 1) : ~Throws(Initializers[j], e)
    ELSE Len(Initializers) + 1

\* the listener reaches the call of the initializer: nothing before it threw
Called(name, e) == Index(name) <= FailIndex(e)

----------------------------------------------------------------------------
(* Scroll fraction and the sine of its multiples *)

\* 1000 * sin(k * 22.5 degrees), k = 0 .. 15
SinTable ==
  <<0, 383, 707, 924, 1000, 924, 707, 383, 0, -383, -707, -924, -1000, -924, -707, -383>>

\* 1000 * Math.sin(percent * Math.PI * m), percent in thousandths, to the
\* sixteenth of a turn below
SinPi(p, m) == SinTable[(((p * m) \div 125) % 16) + 1]

\* const percent = scrollHeight > 0 ? scrollTop / scrollHeight : 0
Percent(top, range) == IF range > 0 THEN (1000 * top) \div range ELSE 0

----------------------------------------------------------------------------
(* initUniverse: the mascot on the canvas *)

\* mousemove listener: mouseX = e.clientX / vw - 0.5, vw = window.innerWidth || 1
PointerOffset(client, inner) == (1000 * client) \div (IF inner = 0 THEN 1 ELSE inner) - 500

\* the mascot's transform with a term that grows with the frames
MascotTransform_Drift(p, mx, my, ww, hh) ==
  [x |-> p * (ww + 300) - 150000 + frames,
   y |-> 500 * hh + SinPi(p, 4) * 50 + my * 80,
   rotation |-> SinPi(p, 8) * 25 + (mx * 28648) \div 1000,
   scale |-> Max(500, Min(1400,
               ((800 + (400 * SinPi(p, 1)) \div 1000) * (1000 + (my * 3) \div 10)) \div 1000))]

\* draw(): xPos, yPos, interactiveRotate (here in degrees), baseScale
MascotTransform(p, mx, my, ww, hh) ==
  [x |-> p * (ww + 300) - 150000,
   y |-> 500 * hh + SinPi(p, 4) * 50 + my * 80,
   rotation |-> SinPi(p, 8) * 25 + (mx * 28648) \div 1000,
   scale |-> Max(500, Min(1400,
               ((800 + (400 * SinPi(p, 1)) \div 1000) * (1000 + (my * 3) \div 10)) \div 1000))]

\* the mascot's part of draw(): drawn only once the image has loaded
DrawMascot(ww, hh) ==
  IF dogImgLoaded
    THEN LET p == Percent(scrollTop, scrollRange)
             t == MascotTransform(p, mouseX, mouseY, ww, hh)
         IN /\ mascot' = t
            /\ mascotLog' = Append(mascotLog,
                 [percent |-> p, mouseX |-> mouseX, mouseY |-> mouseY, w |-> ww, h |-> hh,
                  transform |-> t])
    ELSE UNCHANGED <<mascot, mascotLog>>

----------------------------------------------------------------------------
(* initRocketScroll, initDogScroll, initProgressBar *)

\* updateDog(): dog.style.transform
UpdateDog(top, range, inner) ==
  LET p == Percent(top, range)
  IN [translateX |-> p * (inner + 300) - 150000,
      translateY |-> SinPi(p, 4) * 50,
      rotateY |-> SinPi(p, 8) * 25,
      rotateX |-> SinPi(p, 6) * 10,
      scale |-> 800 + (400 * SinPi(p, 1)) \div 1000]

\* update(): progress.style.height = `${percent * 100}%`
UpdateProgress(top, range) == Percent(top, range)

\* 1 - rect.bottom / rect.height in thousandths: NaN for 0 / 0, otherwise a number,
\* the infinities among them (INFINITY stands for +Infinity, -INFINITY for -Infinity)
INFINITY == 1000000000

HeroRatio(bottom, height) ==
  IF height = 0
    THEN [nan |-> bottom = 0,
          value |-> IF bottom > 0 THEN -INFINITY ELSE IF bottom < 0 THEN INFINITY ELSE 0]
    ELSE [nan |-> FALSE, value |-> 1000 - (1000 * bottom) \div height]

\* Math.min(Math.max(v, 0), 1): NaN stays NaN
Clamp01(v) == [nan |-> v.nan, value |-> IF v.nan THEN 0 ELSE Min(Max(v.value, 0), 1000)]

\* the rocket's scroll listener with heroSection present: progress and the
\* transform computed from it (every term NaN when progress is)
RocketScroll(bottom, height) ==
  LET progress == Clamp01(HeroRatio(bottom, height))
      p == progress.value
  IN [nan |-> progress.nan,
      progress |-> p,
      translateX |-> 600 * p + SinPi(p, 1) * 200,
      translateY |-> -800 * p - SinPi(p, 1) * 120,
      rotate |-> -20 * p + SinPi(p, 2) * 8]

----------------------------------------------------------------------------
(* initFAQ, initMenuToggle, populateTweets, initWalletConnect *)

\* answer.scrollHeight + 'px'
FAQ_HEIGHT == "120px"

\* String(b)
BoolString(b) == IF b THEN "true" ELSE "false"

\* FaqToggle leaving the max-height in place when the item closes
FaqToggle_KeepHeight(item) ==
  LET isOpen == ~item[1]
  IN <<isOpen, BoolString(isOpen), IF isOpen THEN FAQ_HEIGHT ELSE item[3]>>

\* one run of the question's click listener on the item state
\* <<open, aria-expanded, max-height>>
FaqToggle(item) ==
  LET isOpen == ~item[1]
  IN <<isOpen, BoolString(isOpen), IF isOpen THEN FAQ_HEIGHT ELSE "">>

\* n runs of the question's click listener
RECURSIVE FaqToggles(_, _)
FaqToggles(item, n) == IF n = 0 THEN item ELSE FaqToggles(FaqToggle(item), n - 1)

\* one run of the toggle's click listener on the menu state <<open, aria-expanded>>
MenuToggle(m) == <<~m[1], BoolString(~(m[2] = "true"))>>

\* n runs of the toggle's click listener
RECURSIVE MenuToggles(_, _)
MenuToggles(m, n) == IF n = 0 THEN m ELSE MenuToggles(MenuToggle(m), n - 1)

\* the tweets array
TWEET_COUNT == 6

\* tweets.forEach(... feed.appendChild(li))
PopulateTweets(feed) == feed \o [i \in 1 .. TWEET_COUNT |-> i]

\* the alert of a click without provider
ALERT_NO_WALLET ==
  "No Solana wallet detected. Please install Phantom or another compatible wallet."

\* the alert of a failed connect()
ALERT_FAILED == "Failed to connect to wallet."

\* a public key of n base58 characters, resp.publicKey.toString()
Address(n) == [i \in 1 .. n |-> <<"7", "x", "K", "q", "2">>[(i % 5) + 1]]

\* `Connected: ${resp.publicKey.toString()}`: the prefix, then the characters
ConnectedText(addr) == <<"Connected: ">> \o addr

----------------------------------------------------------------------------
(* initUniverse: handlers *)

\* onResize(), reading window.innerWidth = nw and window.innerHeight = nh
OnResize(nw, nh, seed) ==
  /\ w' = nw
  /\ canvasW' = nw
  /\ h' = nh
  /\ canvasH' = nh
  /\ stars' = SpawnStars(STAR_COUNT, nw, nh, seed, nextId)
  /\ nebulas' = SpawnNebulas(nw, nh, seed, nextId + STAR_COUNT)
  /\ nextId' = nextId + STAR_COUNT + NebCount(nw, nh)

\* DrawBody requesting a frame twice
DrawBody_TwoRequests(ns, ss, ww, hh, seed, pulse, queued) ==
  /\ nebulas' = NebulaPass(ns, pulse)
  /\ stars' = StarPass(ss, ww, hh, seed)
  /\ comets' = CometPass(comets, 1, Len(comets), hh)
  /\ supernovas' = SupernovaPass(supernovas, 1, Len(supernovas))
  /\ DrawMascot(ww, hh)
  /\ pendingDraw' = queued + 2
  /\ frames' = frames + 1

\* draw(): one pass over the lists `ss` (stars) and `ns` (nebulas) and the
\* comets and supernovas, the mascot, then requestAnimationFrame(draw).  `queued` is the
\* number of callbacks pending once this invocation has been taken off the queue.
DrawBody(ns, ss, ww, hh, seed, pulse, queued) ==
  /\ nebulas' = NebulaPass(ns, pulse)
  /\ stars' = StarPass(ss, ww, hh, seed)
  /\ comets' = CometPass(comets, 1, Len(comets), hh)
  /\ supernovas' = SupernovaPass(supernovas, 1, Len(supernovas))
  /\ DrawMascot(ww, hh)
  /\ pendingDraw' = queued + 1
  /\ frames' = frames + 1

\* initUniverse() on a canvas whose getContext('2d') gave null: mousemove listener,
\* onResize(), addEventListener('resize'), setInterval x 2, then draw() throws at
\* ctx.clearRect: no frame is requested and the click listener is not registered
InitUniverse_NoContext(seed) ==
  /\ OnResize(innerWidth, innerHeight, seed)
  /\ UNCHANGED <<innerWidth, innerHeight, comets, supernovas, pendingDraw, frames, events,
                 mascot, mascotLog>>

\* initUniverse(): mousemove listener; onResize(); addEventListener('resize');
\* setInterval x 2; draw(); addEventListener('click')
InitUniverse(seed, drawSeed, pulse) ==
  /\ w' = innerWidth
  /\ canvasW' = innerWidth
  /\ h' = innerHeight
  /\ canvasH' = innerHeight
  /\ nextId' = nextId + STAR_COUNT + NebCount(innerWidth, innerHeight)
  /\ DrawBody(SpawnNebulas(innerWidth, innerHeight, seed, nextId + STAR_COUNT),
              SpawnStars(STAR_COUNT, innerWidth, innerHeight, seed, nextId),
              innerWidth, innerHeight, drawSeed, pulse, 0)
  /\ UNCHANGED <<innerWidth, innerHeight, events>>

----------------------------------------------------------------------------
(* initDog3D *)

\* wanderArea = { x: 20, y: 10 }
WANDER_X == 20000

WANDER_Y == 10000

\* Reflect without the bounds
Reflect_Unbounded(pos, vel, delta, limit) == <<pos + (vel * delta) \div 1000, vel>>

\* one coordinate of animate's "Update position" and "Reflect at boundaries":
\* the pair <<position, velocity>> after the step
Reflect(pos, vel, delta, limit) ==
  LET p == pos + (vel * delta) \div 1000
  IN IF p > limit THEN <<limit, -vel>>
     ELSE IF p < -limit THEN <<-limit, -vel>>
     ELSE <<p, vel>>

\* animate(): requestAnimationFrame(animate), then the body with
\* delta = clock.getDelta() ms.  `queued` as in DrawBody.  The rotations of the
\* dog, its limbs and its tail are assigned from clock.elapsedTime and
\* dogVelocity alone and are not kept in the state.
AnimateBody(delta, queued) ==
  LET px == Reflect(dogPos[1], dogVel[1], delta, WANDER_X)
      py == Reflect(dogPos[2], dogVel[2], delta, WANDER_Y)
  IN /\ pendingAnimate' = queued + 1
     /\ clockElapsed' = clockElapsed + delta
     /\ animInputs' = <<Percent(scrollTop, scrollRange), mouseX, mouseY>>
     /\ dogPos' = <<px[1], py[1]>>
     /\ dogVel' = <<px[2], py[2]>>

\* initDog3D() when the container and THREE are present: renderer.setSize,
\* dogVelocity from two Math.random() calls, animate() with the clock's first
\* delta 0, addEventListener('resize')
InitDog3D(seed) ==
  /\ rendererSize' = <<innerWidth, innerHeight>>
  /\ animInputs' = <<Percent(scrollTop, scrollRange), mouseX, mouseY>>
  /\ pendingAnimate' = 1
  /\ clockElapsed' = 0
  /\ dogPos' = <<0, 0>>
  /\ dogVel' = <<(2 * Rnd(seed, 0) - 1000) * 4, (2 * Rnd(seed, 1) - 1000) * 2>>

----------------------------------------------------------------------------
(* initCopyAddress *)

\* addressEl.textContent, as a sequence of characters
AddressText == <<" ", "G", "b", "k", " ">>

\* String.prototype.trim
RECURSIVE Trim(_)
Trim(t) ==
  IF t = <<>> THEN t
  ELSE IF Head(t) = " " THEN Trim(Tail(t))
  ELSE IF t[Len(t)] = " " THEN Trim(SubSeq(t, 1, Len(t) - 1))
  ELSE t

\* the delay of both setTimeout calls
CLEAR_DELAY == 2000

----------------------------------------------------------------------------
(* Actions *)

\* if (toggle && menuList)
MenuNodes(e) == e.menuToggle /\ e.menuList

\* initCopyAddress returning only when the button is missing
CopyNodes_ButtonOnly(e) == e.copyBtn

\* if (!copyBtn || !addressEl || !statusEl) return
CopyNodes(e) == e.copyBtn /\ e.addressEl /\ e.statusEl

\* if (!connectBtn || !status) return
WalletNodes(e) == e.connectBtn /\ e.walletEl

\* if (!container || typeof THREE === 'undefined') return
Dog3DNodes(e) == e.dog3d /\ e.three

\* the DOMContentLoaded listener registers the callbacks of group g on the page e
Installs(g, e) ==
  \/ g = "universe" /\ e.universe
  \/ g = "documentClick" /\ e.universe /\ e.ctx2d
  \/ g = "observer" /\ Called("initScrollAnimations", e) /\ e.observer
  \/ g = "menu" /\ Called("initMenuToggle", e) /\ MenuNodes(e)
  \/ g = "copy" /\ Called("initCopyAddress", e) /\ CopyNodes(e)
  \/ g = "wallet" /\ Called("initWalletConnect", e) /\ WalletNodes(e)
  \/ g = "faq" /\ Called("initFAQ", e) /\ e.faq
  \/ g = "rocket" /\ Called("initRocketScroll", e) /\ e.rocket
  \/ g = "progress" /\ Called("initProgressBar", e) /\ e.progressBar
  \/ g = "dogScroll" /\ Called("initDogScroll", e) /\ e.dogContainer
  \/ g = "dog3d" /\ Called("initDog3D", e) /\ Dog3DNodes(e)

\* document 'DOMContentLoaded': the twelve initializers in order, up to the first
\* that throws.  seed, drawSeed, pulse: as in InitUniverse; dogSeed: the stream
\* of initDog3D
DOMContentLoaded(seed, drawSeed, pulse, dogSeed) ==
  /\ ~started
  /\ started' = TRUE
  /\ startupError' = IF FailIndex(env) <= Len(Initializers)
                       THEN Initializers[FailIndex(env)]
                       ELSE ""
  /\ installed' = [g \in Groups |-> IF Installs(g, env) THEN 1 ELSE 0]
  /\ IF env.universe
       THEN IF env.ctx2d
              THEN InitUniverse(seed, drawSeed, pulse)
              ELSE InitUniverse_NoContext(seed)
       ELSE UNCHANGED <<universeVars, mascot, mascotLog>>
  /\ charts' = IF Called("initChart", env) /\ env.chartEl /\ env.chartLib
                 THEN charts + 1
                 ELSE charts
  /\ tweets' = IF Called("populateTweets", env) /\ env.tweetFeed
                 THEN PopulateTweets(tweets)
                 ELSE tweets
  /\ rocket' = IF Installs("rocket", env)
                 THEN [rocket EXCEPT !.animation = "none"]
                 ELSE rocket
  /\ progressHeight' = IF Installs("progress", env)
                         THEN UpdateProgress(scrollTop, scrollRange)
                         ELSE progressHeight
  /\ domDog' = IF Installs("dogScroll", env)
                 THEN UpdateDog(scrollTop, scrollRange, innerWidth)
                 ELSE domDog
  /\ IF Installs("dog3d", env)
       THEN InitDog3D(dogSeed)
       ELSE UNCHANGED <<dogVars, animInputs>>
  /\ UNCHANGED <<copyVars, env, widgetState>>
  /\ UNCHANGED <<scrollTop, scrollRange, heroRect, mouseX, mouseY, dogImgLoaded>>

\* one animation frame: the browser runs the pending requestAnimationFrame
\* callbacks in the order of their registration, draw before animate
AnimationFrame(seed, pulse, delta) ==
  /\ started
  /\ pendingDraw + pendingAnimate > 0
  /\ IF pendingDraw > 0
       THEN DrawBody(nebulas, stars, w, h, seed, pulse, pendingDraw - 1)
       ELSE UNCHANGED <<nebulas, stars, comets, supernovas, pendingDraw, frames, mascot,
                        mascotLog>>
  /\ IF pendingAnimate > 0
       THEN /\ AnimateBody(delta, pendingAnimate - 1)
            /\ UNCHANGED rendererSize
       ELSE UNCHANGED <<dogVars, animInputs>>
  /\ UNCHANGED <<started, innerWidth, innerHeight, w, h, canvasW, canvasH, nextId, events>>
  /\ UNCHANGED <<copyVars, pageVars, widgetState, scrollVars>>
  /\ UNCHANGED <<mouseX, mouseY, dogImgLoaded>>

\* window 'resize': the window takes the size nw x nh; the listeners run:
\* onResize of initUniverse, update of initProgressBar, updateDog of
\* initDogScroll, onResize of initDog3D
Resize(nw, nh, seed) ==
  /\ started
  /\ innerWidth' = nw
  /\ innerHeight' = nh
  /\ IF installed["universe"] > 0
       THEN OnResize(nw, nh, seed)
       ELSE UNCHANGED <<w, h, canvasW, canvasH, stars, nebulas, nextId>>
  /\ events' = events + 1
  /\ progressHeight' = IF installed["progress"] > 0
                         THEN UpdateProgress(scrollTop, scrollRange)
                         ELSE progressHeight
  /\ domDog' = IF installed["dogScroll"] > 0
                 THEN UpdateDog(scrollTop, scrollRange, nw)
                 ELSE domDog
  /\ rendererSize' = IF installed["dog3d"] > 0 THEN <<nw, nh>> ELSE rendererSize
  /\ UNCHANGED <<started, comets, supernovas, pendingDraw, frames>>
  /\ UNCHANGED <<pendingAnimate, dogPos, dogVel, clockElapsed>>
  /\ UNCHANGED <<copyVars, pageVars, widgetState, mascotVars>>
  /\ UNCHANGED <<scrollTop, scrollRange, heroRect, rocket>>

\* CometTick without the limit on comets.length
CometTick_NoCap(seed) ==
  /\ installed["universe"] > 0
  /\ comets' = Append(comets, SpawnComet(w, h, seed, nextId))
  /\ nextId' = nextId + 1
  /\ UNCHANGED <<started, innerWidth, innerHeight, w, h, canvasW, canvasH, stars,
                 nebulas, supernovas, pendingDraw, frames, events>>
  /\ UNCHANGED <<dogVars, copyVars, pageVars, widgetState, scrollVars, mascotVars>>

\* setInterval(..., 5000) callback
CometTick(seed) ==
  /\ installed["universe"] > 0
  /\ IF Len(comets) < MAX_COMETS
       THEN /\ comets' = Append(comets, SpawnComet(w, h, seed, nextId))
            /\ nextId' = nextId + 1
       ELSE UNCHANGED <<comets, nextId>>
  /\ UNCHANGED <<started, innerWidth, innerHeight, w, h, canvasW, canvasH, stars,
                 nebulas, supernovas, pendingDraw, frames, events>>
  /\ UNCHANGED <<dogVars, copyVars, pageVars, widgetState, scrollVars, mascotVars>>

\* setInterval(..., 10000) callback
SupernovaTick(seed) ==
  /\ installed["universe"] > 0
  /\ supernovas' = Append(supernovas, SpawnSupernova(w, h, seed, nextId))
  /\ nextId' = nextId + 1
  /\ events' = events + 1
  /\ UNCHANGED <<started, innerWidth, innerHeight, w, h, canvasW, canvasH, stars,
                 nebulas, comets, pendingDraw, frames>>
  /\ UNCHANGED <<dogVars, copyVars, pageVars, widgetState, scrollVars, mascotVars>>

\* the document 'click' listener of initUniverse
DocumentClick(clientX, clientY, seed) ==
  /\ supernovas' = Append(supernovas, ClickSupernova(clientX, clientY, seed, nextId))
  /\ nextId' = nextId + 1
  /\ UNCHANGED <<started, innerWidth, innerHeight, w, h, canvasW, canvasH, stars,
                 nebulas, comets, pendingDraw, frames>>
  /\ UNCHANGED dogVars

\* a click event reaching the document: the listener of initUniverse, when it
\* is registered
Bubble(clientX, clientY, seed) ==
  /\ IF installed["documentClick"] > 0
       THEN DocumentClick(clientX, clientY, seed)
       ELSE /\ UNCHANGED <<started, innerWidth, innerHeight, w, h, canvasW, canvasH, stars,
                           nebulas, comets, supernovas, pendingDraw, nextId, frames>>
            /\ UNCHANGED dogVars
  /\ UNCHANGED <<pageVars, scrollVars, mascotVars>>

\* a click at (clientX, clientY) outside the widgets
Click(clientX, clientY, seed) ==
  /\ installed["documentClick"] > 0
  /\ Bubble(clientX, clientY, seed)
  /\ events' = events + 1
  /\ UNCHANGED <<copyVars, widgetState>>

\* a click on the copy button at (clientX, clientY): its click listeners, then (the
\* event bubbles) the document's.  hasClipboard: navigator.clipboard is defined;
\* when it is not, navigator.clipboard.writeText throws a TypeError out of the
\* listener.
CopyClick(clientX, clientY, seed, hasClipboard) ==
  /\ installed["copy"] > 0
  /\ copyClicks' = copyClicks + 1
  /\ IF hasClipboard
       THEN /\ writes' = writes + installed["copy"]
            /\ UNCHANGED <<uncaught, copyFailures>>
       ELSE /\ uncaught' = uncaught + installed["copy"]
            /\ copyFailures' = copyFailures + installed["copy"]
            /\ UNCHANGED writes
  /\ UNCHANGED <<copyStatus, clipboard, timers, statusAge>>
  /\ Bubble(clientX, clientY, seed)
  /\ UNCHANGED <<events, widgetState>>

\* a writeText promise is fulfilled: the .then callback
WriteResolves ==
  /\ writes > 0
  /\ writes' = writes - 1
  /\ clipboard' = Trim(AddressText)
  /\ copyStatus' = "Copied!"
  /\ timers' = Append(timers, CLEAR_DELAY)
  /\ statusAge' = 0
  /\ UNCHANGED <<uncaught, copyFailures, copyClicks>>
  /\ UNCHANGED <<started, universeVars, dogVars, pageVars, widgetState, scrollVars,
                 mascotVars>>

\* a writeText promise is rejected: the .catch callback
WriteRejects ==
  /\ writes > 0
  /\ writes' = writes - 1
  /\ copyStatus' = "Failed to copy"
  /\ timers' = Append(timers, CLEAR_DELAY)
  /\ statusAge' = 0
  /\ copyFailures' = copyFailures + 1
  /\ UNCHANGED <<clipboard, uncaught, copyClicks>>
  /\ UNCHANGED <<started, universeVars, dogVars, pageVars, widgetState, scrollVars,
                 mascotVars>>

\* the oldest setTimeout callback, when due: statusEl.textContent = ''
TimerFires ==
  /\ timers # <<>>
  /\ Head(timers) = 0
  /\ timers' = Tail(timers)
  /\ copyStatus' = ""
  /\ UNCHANGED <<writes, clipboard, statusAge, uncaught, copyFailures, copyClicks>>
  /\ UNCHANGED <<started, universeVars, dogVars, pageVars, widgetState, scrollVars,
                 mascotVars>>

\* dt ms pass while a timeout is pending and none is due
TimePasses(dt) ==
  /\ timers # <<>>
  /\ \A i \in 1 .. Len(timers) : timers[i] >= dt
  /\ timers' = [i \in 1 .. Len(timers) |-> timers[i] - dt]
  /\ statusAge' = statusAge + dt
  /\ UNCHANGED <<copyStatus, writes, clipboard, uncaught, copyFailures, copyClicks>>
  /\ UNCHANGED <<started, universeVars, dogVars, pageVars, widgetState, scrollVars,
                 mascotVars>>

\* the variables the widget clicks, the wallet and the scroll handlers leave alone
\* apart from the click's way up to the document
clipboardState == <<copyVars, events>>

\* a click on the question of FAQ item i: its click listeners, then the document's
FaqClick(i, clientX, clientY, seed) ==
  /\ installed["faq"] > 0
  /\ LET t == FaqToggles(<<faqOpen[i], faqAria[i], faqMaxHeight[i]>>, installed["faq"])
     IN /\ faqOpen' = [faqOpen EXCEPT ![i] = t[1]]
        /\ faqAria' = [faqAria EXCEPT ![i] = t[2]]
        /\ faqMaxHeight' = [faqMaxHeight EXCEPT ![i] = t[3]]
  /\ faqClicks' = [faqClicks EXCEPT ![i] = @ + 1]
  /\ Bubble(clientX, clientY, seed)
  /\ UNCHANGED <<clipboardState, menuVars, walletVars, menuClicks, walletClicks>>

\* a click on the menu toggle: its click listeners, then the document's
MenuClick(clientX, clientY, seed) ==
  /\ installed["menu"] > 0
  /\ LET t == MenuToggles(<<menuOpen, menuAria>>, installed["menu"])
     IN /\ menuOpen' = t[1]
        /\ menuAria' = t[2]
  /\ menuClicks' = menuClicks + 1
  /\ Bubble(clientX, clientY, seed)
  /\ UNCHANGED <<clipboardState, faqVars, walletVars, walletClicks, faqClicks>>

\* the wallet button's listener asking the provider whatever window.solana is
WalletListener_NoCheck(n) ==
  /\ walletDisabled' = TRUE
  /\ walletLabel' = "Connecting..."
  /\ connects' = connects + n
  /\ UNCHANGED <<alerts, walletStatus, solana>>

\* n runs of the wallet button's click listener, up to its await (the label's
\* ellipsis character is written as three dots)
WalletListener(n) ==
  IF ~solana
    THEN /\ alerts' = alerts \o [k \in 1 .. n |-> ALERT_NO_WALLET]
         /\ UNCHANGED <<solana, walletLabel, walletDisabled, walletStatus, connects>>
    ELSE /\ walletDisabled' = TRUE
         /\ walletLabel' = "Connecting..."
         /\ connects' = connects + n
         /\ UNCHANGED <<alerts, walletStatus, solana>>

\* a click delivered to the wallet button whether it is disabled or not
WalletClick_Disabled(clientX, clientY, seed) ==
  /\ installed["wallet"] > 0
  /\ WalletListener(installed["wallet"])
  /\ walletClicks' = walletClicks + 1
  /\ Bubble(clientX, clientY, seed)
  /\ UNCHANGED <<clipboardState, faqVars, menuVars, menuClicks, faqClicks>>

\* a click on the wallet button (a disabled button receives no click): its click
\* listeners, then the document's
WalletClick(clientX, clientY, seed) ==
  /\ installed["wallet"] > 0
  /\ ~walletDisabled
  /\ WalletListener(installed["wallet"])
  /\ walletClicks' = walletClicks + 1
  /\ Bubble(clientX, clientY, seed)
  /\ UNCHANGED <<clipboardState, faqVars, menuVars, menuClicks, faqClicks>>

\* a connect() promise is fulfilled with the public key addr: the rest of the try
\* block, then finally
ConnectResolves(addr) ==
  /\ connects > 0
  /\ connects' = connects - 1
  /\ walletStatus' = ConnectedText(addr)
  /\ walletLabel' = "Connected"
  /\ walletDisabled' = FALSE
  /\ UNCHANGED <<solana, alerts>>
  /\ UNCHANGED <<started, universeVars, dogVars, copyVars, pageVars, scrollVars, mascotVars>>
  /\ UNCHANGED <<faqVars, menuVars, menuClicks, walletClicks, faqClicks>>

\* a connect() promise is rejected: catch, then finally
ConnectRejects ==
  /\ connects > 0
  /\ connects' = connects - 1
  /\ alerts' = Append(alerts, ALERT_FAILED)
  /\ walletLabel' = "Connect Wallet"
  /\ walletDisabled' = FALSE
  /\ UNCHANGED <<solana, walletStatus>>
  /\ UNCHANGED <<started, universeVars, dogVars, copyVars, pageVars, scrollVars, mascotVars>>
  /\ UNCHANGED <<faqVars, menuVars, menuClicks, walletClicks, faqClicks>>

\* a wallet extension defines window.solana
InjectWallet ==
  /\ ~solana
  /\ solana' = TRUE
  /\ UNCHANGED <<walletLabel, walletDisabled, walletStatus, connects, alerts>>
  /\ UNCHANGED <<started, universeVars, dogVars, copyVars, pageVars, scrollVars, mascotVars>>
  /\ UNCHANGED <<faqVars, menuVars, menuClicks, walletClicks, faqClicks>>

\* the DOM-widget initializers
WidgetInitializers ==
  {"initFAQ", "initMenuToggle", "populateTweets", "initCopyAddress", "initWalletConnect",
   "initChart"}

\* the group of listeners a widget initializer registers, "" when it registers none
GroupOf(name) ==
  CASE name = "initFAQ" -> "faq"
    [] name = "initMenuToggle" -> "menu"
    [] name = "initCopyAddress" -> "copy"
    [] name = "initWalletConnect" -> "wallet"
    [] OTHER -> ""

\* the initializer finds the nodes it looks up on the page e
NodesOf(name, e) ==
  CASE name = "initFAQ" -> e.faq
    [] name = "initMenuToggle" -> MenuNodes(e)
    [] name = "populateTweets" -> e.tweetFeed
    [] name = "initCopyAddress" -> CopyNodes(e)
    [] name = "initWalletConnect" -> WalletNodes(e)
    [] name = "initChart" -> e.chartEl /\ e.chartLib
    [] OTHER -> FALSE

\* one more call of a DOM-widget initializer on the started page
Reinit(name) ==
  /\ started
  /\ name \in WidgetInitializers
  /\ NodesOf(name, env)
  /\ installed' = IF GroupOf(name) # ""
                    THEN [installed EXCEPT ![GroupOf(name)] = @ + 1]
                    ELSE installed
  /\ tweets' = IF name = "populateTweets" THEN PopulateTweets(tweets) ELSE tweets
  /\ charts' = IF name = "initChart" THEN charts + 1 ELSE charts
  /\ UNCHANGED <<env, startupError>>
  /\ UNCHANGED <<started, universeVars, dogVars, copyVars, widgetState, scrollVars,
                 mascotVars>>

\* window 'scroll' to the offset top: the listeners of initRocketScroll,
\* initDogScroll and initProgressBar.  A hero section that has a box moves with
\* the page; one without (display: none) has a rectangle of zeros.
Scroll(top) ==
  /\ started
  /\ scrollTop' = top
  /\ heroRect' = IF heroRect[2] = 0 THEN heroRect ELSE <<heroRect[2] - top, heroRect[2]>>
  /\ rocket' = IF installed["rocket"] > 0 /\ env.hero
                 THEN [rocket EXCEPT !.transform = RocketScroll(heroRect'[1], heroRect'[2])]
                 ELSE rocket
  /\ domDog' = IF installed["dogScroll"] > 0
                 THEN UpdateDog(top, scrollRange, innerWidth)
                 ELSE domDog
  /\ progressHeight' = IF installed["progress"] > 0
                         THEN UpdateProgress(top, scrollRange)
                         ELSE progressHeight
  /\ UNCHANGED scrollRange
  /\ UNCHANGED <<started, universeVars, dogVars, copyVars, pageVars, widgetState, mascotVars>>

\* window 'mousemove' at (clientX, clientY): the listener of initUniverse
MouseMove(clientX, clientY) ==
  /\ installed["universe"] > 0
  /\ mouseX' = PointerOffset(clientX, innerWidth)
  /\ mouseY' = PointerOffset(clientY, innerHeight)
  /\ UNCHANGED <<dogImgLoaded, mascot, mascotLog, animInputs>>
  /\ UNCHANGED <<started, universeVars, dogVars, copyVars, pageVars, widgetState, scrollVars>>

\* dog3d.png has loaded
ImageLoads ==
  /\ installed["universe"] > 0
  /\ ~dogImgLoaded
  /\ dogImgLoaded' = TRUE
  /\ UNCHANGED <<mouseX, mouseY, mascot, mascotLog, animInputs>>
  /\ UNCHANGED <<started, universeVars, dogVars, copyVars, pageVars, widgetState, scrollVars>>

----------------------------------------------------------------------------
(* Specifications *)

\* window sizes <<innerWidth, innerHeight>> the environment takes
WindowSizes == {<<320, 480>>, <<1300, 1250>>}

\* Math.sin(performance.now() * 0.0002) * 0.0003 in millionths
Pulses == {300}

\* click positions
ClickPoints == {<<10, 20>>}

\* a transform that moves nothing
NoTransform == [x |-> 0, y |-> 0, rotation |-> 0, scale |-> 0]

\* the state of the program and of the browser before DOMContentLoaded
InitProgram ==
  /\ started = FALSE
  /\ \E size \in WindowSizes : innerWidth = size[1] /\ innerHeight = size[2]
  /\ w = 0
  /\ h = 0
  /\ canvasW = 300
  /\ canvasH = 150
  /\ stars = <<>>
  /\ nebulas = <<>>
  /\ comets = <<>>
  /\ supernovas = <<>>
  /\ pendingDraw = 0
  /\ nextId = 1
  /\ frames = 0
  /\ events = 0
  /\ pendingAnimate = 0
  /\ dogPos = <<0, 0>>
  /\ dogVel = <<0, 0>>
  /\ clockElapsed = 0
  /\ rendererSize = <<0, 0>>
  /\ copyStatus = ""
  /\ writes = 0
  /\ clipboard = <<>>
  /\ timers = <<>>
  /\ statusAge = 0
  /\ uncaught = 0
  /\ copyFailures = 0
  /\ copyClicks = 0
  /\ installed = [g \in Groups |-> 0]
  /\ startupError = ""
  /\ tweets = <<>>
  /\ charts = 0
  /\ walletLabel = "Connect Wallet"
  /\ walletDisabled = FALSE
  /\ walletStatus = <<>>
  /\ connects = 0
  /\ alerts = <<>>
  /\ scrollTop = 0
  /\ mouseX = 0
  /\ mouseY = 0
  /\ dogImgLoaded = FALSE
  /\ mascot = NoTransform
  /\ mascotLog = <<>>
  /\ animInputs = <<>>
  /\ domDog = [translateX |-> 0, translateY |-> 0, rotateY |-> 0, rotateX |-> 0, scale |-> 0]
  /\ progressHeight = 0
  /\ rocket = [animation |-> "css",
               transform |-> [nan |-> FALSE, progress |-> 0, translateX |-> 0,
                              translateY |-> 0, rotate |-> 0]]
  /\ menuClicks = 0
  /\ walletClicks = 0
  /\ faqClicks = [i \in FaqItems |-> 0]

\* the markup as the page ships it: everything closed, the attributes saying so
DefaultMarkup ==
  /\ faqOpen = [i \in FaqItems |-> FALSE]
  /\ faqAria = [i \in FaqItems |-> "false"]
  /\ faqMaxHeight = [i \in FaqItems |-> ""]
  /\ menuOpen = FALSE
  /\ menuAria = "false"

\* a document 1000 px longer than the viewport with a hero section 600 px high
DefaultDocument ==
  /\ scrollRange = 1000
  /\ heroRect = <<600, 600>>

\* the complete page in a browser with a wallet extension
Init ==
  /\ InitProgram
  /\ env = AllPresent
  /\ solana = TRUE
  /\ DefaultMarkup
  /\ DefaultDocument

(* Spec: the universe and the 3D mascot under every interleaving of comet-timer *)
(* ticks with a bounded number of frames (the mascot's clock advancing 6 s a    *)
(* frame) and of resize, click and supernova-timer events.                     *)

MaxSteps == 3

\* the frames and events so far
Steps == frames + events

Next ==
  \/ \E pulse \in Pulses : DOMContentLoaded(0, 0, pulse, 4)
  \/ Steps < MaxSteps /\ \E pulse \in Pulses : AnimationFrame(1, pulse, 6000)
  \/ Steps < MaxSteps /\ \E size \in WindowSizes : Resize(size[1], size[2], 1)
  \/ CometTick(2)
  \/ Steps < MaxSteps /\ SupernovaTick(3)
  \/ Steps < MaxSteps /\ \E p \in ClickPoints : Click(p[1], p[2], 3)

Spec == Init /\ [][Next]_vars

(* SpecLong: particles spawned, and the window resized, right after startup,   *)
(* then followed over their lives at 60 frames a second.                       *)

MaxLongFrames == 303

MaxLongSpawns == 2

\* the comets spawned (none is removed before the second frame) and the
\* resize, click and supernova-timer events so far
LongSpawns == Len(comets) + events

NextLong ==
  \/ \E pulse \in Pulses : DOMContentLoaded(0, 0, pulse, 4)
  \/ frames < MaxLongFrames /\ \E pulse \in Pulses : AnimationFrame(1, pulse, 16)
  \/ frames = 1 /\ LongSpawns < MaxLongSpawns /\ \E seed \in {1, 3} : CometTick(seed)
  \/ frames = 1 /\ LongSpawns < MaxLongSpawns /\ SupernovaTick(3)
  \/ frames = 1 /\ LongSpawns < MaxLongSpawns /\ \E size \in WindowSizes :
       Resize(size[1], size[2], 1)
  \/ frames = 1 /\ LongSpawns < MaxLongSpawns /\ \E p \in ClickPoints : Click(p[1], p[2], 3)

SpecLong == Init /\ [][NextLong]_vars

(* SpecCopy: the copy button, with time. *)

MaxCopyClicks == 2

\* the granularity of time, ms
TimeStep == CLEAR_DELAY \div 4

NextCopy ==
  \/ \E pulse \in Pulses : DOMContentLoaded(0, 0, pulse, 4)
  \/ copyClicks < MaxCopyClicks /\ \E p \in ClickPoints, hasClipboard \in BOOLEAN :
       CopyClick(p[1], p[2], 3, hasClipboard)
  \/ WriteResolves
  \/ WriteRejects
  \/ TimerFires
  \/ TimePasses(TimeStep)

SpecCopy == Init /\ [][NextCopy]_vars

(* SpecReinit: the complete page with DOM-widget initializers called again    *)
(* after startup, and clicks on the widgets.                                   *)

\* calls of widget initializers after startup
MaxReinits == 2

\* clicks on widgets
MaxReinitClicks == 2

\* the calls of widget initializers beyond the one of startup
Reinits ==
  installed["faq"] + installed["menu"] + installed["copy"] + installed["wallet"] + charts
    + Len(tweets) \div TWEET_COUNT - 6

\* the clicks on widgets so far
WidgetClicks == menuClicks + walletClicks + copyClicks + faqClicks[1] + faqClicks[2]

InitReinit == Init /\ innerWidth = 320

NextReinit ==
  \/ \E pulse \in Pulses : DOMContentLoaded(0, 0, pulse, 4)
  \/ Reinits < MaxReinits /\ \E name \in WidgetInitializers : Reinit(name)
  \/ WidgetClicks < MaxReinitClicks /\ \E i \in FaqItems, p \in ClickPoints :
       FaqClick(i, p[1], p[2], 3)
  \/ WidgetClicks < MaxReinitClicks /\ \E p \in ClickPoints : MenuClick(p[1], p[2], 3)
  \/ WidgetClicks < MaxReinitClicks /\ \E p \in ClickPoints : CopyClick(p[1], p[2], 3, TRUE)
  \/ WidgetClicks < MaxReinitClicks /\ \E p \in ClickPoints : WalletClick(p[1], p[2], 3)

SpecReinit == InitReinit /\ [][NextReinit]_vars

(* SpecStartup: pages lacking one node or one library, started and then used. *)

\* the complete page and every page lacking one node or library
Environments == {AllPresent} \cup {Without(f) : f \in EnvFields}

\* frames and events after the page has loaded (on a page without canvas the
\* frames of the 3D mascot are counted by its clock)
MaxStartupSteps == 3

\* the frames run and the events handled so far
Activity ==
  frames + events + copyClicks + menuClicks + walletClicks + faqClicks[1] + faqClicks[2]

InitStartup ==
  /\ InitProgram
  /\ innerWidth = 320
  /\ env \in Environments
  /\ solana = TRUE
  /\ DefaultMarkup
  /\ DefaultDocument

NextStartup ==
  \/ \E pulse \in Pulses : DOMContentLoaded(0, 0, pulse, 4)
  \/ Activity < MaxStartupSteps /\ clockElapsed < 16 * MaxStartupSteps
       /\ \E pulse \in Pulses : AnimationFrame(1, pulse, 16)
  \/ Activity < MaxStartupSteps /\ Resize(1300, 1250, 1)
  \/ Activity < MaxStartupSteps /\ SupernovaTick(3)
  \/ Activity < MaxStartupSteps /\ \E p \in ClickPoints : Click(p[1], p[2], 3)
  \/ Activity < MaxStartupSteps /\ \E p \in ClickPoints : CopyClick(p[1], p[2], 3, TRUE)
  \/ Activity < MaxStartupSteps /\ \E p \in ClickPoints : FaqClick(1, p[1], p[2], 3)
  \/ Activity < MaxStartupSteps /\ \E p \in ClickPoints : MenuClick(p[1], p[2], 3)
  \/ Activity < MaxStartupSteps /\ \E p \in ClickPoints : WalletClick(p[1], p[2], 3)
  \/ Scroll(500)

SpecStartup == InitStartup /\ [][NextStartup]_vars

(* SpecWidgets: the complete page under every markup of one FAQ item or of the *)
(* menu, with and without a wallet provider, and clicks on the widgets.        *)

\* clicks on widgets
MaxWidgetClicks == 3

\* the public keys connect() resolves with: base58 strings of 32 to 44 characters
Addresses == {Address(32), Address(44)}

\* values of an aria-expanded attribute in the markup ("" when absent)
AriaValues == {"", "true", "false"}

InitWidgets ==
  /\ InitProgram
  /\ innerWidth = 320
  /\ env = AllPresent
  /\ solana \in BOOLEAN
  /\ DefaultDocument
  /\ faqOpen \in [FaqItems -> BOOLEAN]
  /\ faqAria \in [FaqItems -> AriaValues]
  /\ faqMaxHeight \in [FaqItems -> {"", FAQ_HEIGHT}]
  /\ menuOpen \in BOOLEAN
  /\ menuAria \in AriaValues
  /\ ~faqOpen[2] /\ faqAria[2] = "false" /\ faqMaxHeight[2] = ""
  /\ \/ ~faqOpen[1] /\ faqAria[1] = "false" /\ faqMaxHeight[1] = ""
     \/ ~menuOpen /\ menuAria = "false"

NextWidgets ==
  \/ \E pulse \in Pulses : DOMContentLoaded(0, 0, pulse, 4)
  \/ WidgetClicks < MaxWidgetClicks /\ \E i \in FaqItems, p \in ClickPoints :
       FaqClick(i, p[1], p[2], 3)
  \/ WidgetClicks < MaxWidgetClicks /\ \E p \in ClickPoints : MenuClick(p[1], p[2], 3)
  \/ WidgetClicks < MaxWidgetClicks /\ \E p \in ClickPoints : WalletClick(p[1], p[2], 3)
  \/ \E addr \in Addresses : ConnectResolves(addr)
  \/ ConnectRejects
  \/ InjectWallet

SpecWidgets == InitWidgets /\ [][NextWidgets]_vars

(* SpecMascot: the complete page scrolled (also past the end of the document,  *)
(* as a browser with elastic scrolling reports it), pointed at, resized and    *)
(* clicked between frames; the 3D mascot's clock advances 6 s a frame.         *)

\* draw passes, the one of startup included
MaxMascotFrames == 3

\* resize and click events
MaxMascotEvents == 1

\* <<doc.scrollHeight - doc.clientHeight, height of the hero section>>: a long
\* page, and a page that fits the window and whose hero section has no box
Documents == {<<1000, 600>>, <<0, 0>>}

\* the scroll offsets the browser reports
ScrollOffsets == {500, 1125}

\* the pointer positions of mousemove events
PointerPoints == {<<80, 120>>}

InitMascot ==
  /\ InitProgram
  /\ innerWidth = 320
  /\ env = AllPresent
  /\ solana = TRUE
  /\ DefaultMarkup
  /\ \E d \in Documents : scrollRange = d[1] /\ heroRect = <<d[2], d[2]>>

NextMascot ==
  \/ \E pulse \in Pulses : DOMContentLoaded(0, 0, pulse, 4)
  \/ frames <= 1 /\ ImageLoads
  \/ frames < MaxMascotFrames /\ \E pulse \in Pulses : AnimationFrame(1, pulse, 6000)
  \/ events < MaxMascotEvents /\ \E size \in WindowSizes : Resize(size[1], size[2], 1)
  \/ events < MaxMascotEvents /\ \E p \in ClickPoints : Click(p[1], p[2], 3)
  \/ scrollRange > 0 /\ \E top \in ScrollOffsets : Scroll(top)
  \/ scrollRange = 0 /\ Scroll(0)
  \/ \E p \in PointerPoints : MouseMove(p[1], p[2])

SpecMascot == InitMascot /\ [][NextMascot]_vars

(* SpecLive: comets and supernovas spawned right after startup on the complete  *)
(* page, then frames for as long as the browser keeps calling draw: the draw    *)
(* callback is scheduled again by every pass (requestAnimationFrame), hence     *)
(* weak fairness on it.                                                         *)

\* draw passes, the one of startup included
MaxLiveFrames == 505

\* comets and supernovas spawned
MaxLiveSpawns == 2

\* the comets and supernovas spawned so far (none is removed before the second frame)
LiveSpawns == Len(comets) + Len(supernovas)

InitLive == Init /\ innerWidth = 320

\* the draw callback
LiveFrame == frames < MaxLiveFrames /\ \E pulse \in Pulses : AnimationFrame(1, pulse, 16)

NextLive ==
  \/ \E pulse \in Pulses : DOMContentLoaded(0, 0, pulse, 4)
  \/ LiveFrame
  \/ frames = 1 /\ LiveSpawns < MaxLiveSpawns /\ \E seed \in {0, 1} : CometTick(seed)
  \/ frames = 1 /\ LiveSpawns < MaxLiveSpawns /\ SupernovaTick(3)
  \/ frames = 1 /\ LiveSpawns < MaxLiveSpawns /\ \E p \in ClickPoints : Click(p[1], p[2], 3)

SpecLive == InitLive /\ [][NextLive]_vars /\ WF_vars(LiveFrame)

----------------------------------------------------------------------------
(* Claims *)

\* the objects of a particle list
Ids(list) == {list[i].id : i \in 1 .. Len(list)}

\* a step that runs a draw pass over lists that startup has filled
DrawStep == started /\ frames' = frames + 1

\* the comet lies within the viewport extended by its glow radius
InViewport(c, ww, hh) ==
  /\ c.x >= -(c.size * 12)
  /\ c.x <= 1000 * ww + c.size * 12
  /\ c.y >= -(c.size * 12)
  /\ c.y <= 1000 * hh + c.size * 12

\* the supernova after one update: radius + 2, alpha - 0.015
Aged(s) == [s EXCEPT !.radius = @ + 2000, !.alpha = @ - 15]

\* the comet after one update
Moved(c) == [c EXCEPT !.x = @ - c.vx, !.y = @ + c.vy, !.life = @ + 1000]

\* the objects allocated by startup: 250 stars and the nebulas
StartupObjects == 250 + Max(1, Min(innerWidth, innerHeight) \div 600)

\* C1: in every draw pass every supernova of the list is updated (alpha - 0.015,
\* radius + 2) and is removed if and only if, after the update, alpha <= 0 or
\* radius > maxRadius.
C1_EverySupernovaUpdated ==
  [][DrawStep =>
       \A i \in 1 .. Len(supernovas) :
         LET u == Aged(supernovas[i])
         IN IF u.alpha <= 0 \/ u.radius > u.maxRadius
              THEN u.id \notin Ids(supernovas')
              ELSE \E j \in 1 .. Len(supernovas') : supernovas'[j] = u]_vars

\* C2: no comet with life > maxLife is ever left in the list, and a draw pass
\* keeps every comet whose update leaves it with life <= maxLife and within the
\* viewport.
C2_CometExpiry ==
  [][/\ \A j \in 1 .. Len(comets') : comets'[j].life <= comets'[j].maxLife
     /\ DrawStep =>
          \A i \in 1 .. Len(comets) :
            LET u == Moved(comets[i])
            IN (u.life <= u.maxLife /\ InViewport(u, w, h)) => u.id \in Ids(comets')]_vars

\* C2 witness: two comets were spawned, the pass that took the first one's life
\* past its maxLife has removed it, and the other is still listed.
C2_Witness ==
  /\ started
  /\ events = 0
  /\ nextId = 1 + StartupObjects + 2
  /\ Len(comets) = 1
  /\ comets[1].life >= 300000

\* C3: a comet whose position leaves the viewport (extended by its glow radius)
\* in a draw pass, by whichever edge, is removed by that pass.
C3_RemovedOnLeaving ==
  [][DrawStep =>
       \A i \in 1 .. Len(comets) :
         (InViewport(comets[i], w, h) /\ comets[i].id \in Ids(comets'))
           => \A j \in 1 .. Len(comets') :
                comets'[j].id = comets[i].id => InViewport(comets'[j], w, h)]_vars

\* C4: one draw pass steps every star, nebula, comet and supernova of the lists
\* exactly once, drops the expired comets and supernovas keeping the order of
\* the others, and leaves exactly one frame requested.
C4_EveryParticleSteppedOnce ==
  [][DrawStep =>
       /\ \A i \in 1 .. Len(stars) :
            \/ stars'[i].y = stars[i].y + stars[i].speed
            \/ stars'[i].y = 0
       /\ \A i \in 1 .. Len(nebulas) : nebulas'[i].angle = nebulas[i].angle + nebulas[i].speed
       /\ comets' = SelectSeq([i \in 1 .. Len(comets) |-> Moved(comets[i])],
                              LAMBDA c : ~CometExpired(c, h))
       /\ supernovas' = SelectSeq([i \in 1 .. Len(supernovas) |-> Aged(supernovas[i])],
                                  LAMBDA s : ~(s.alpha <= 0 \/ s.radius > s.maxRadius))
       /\ pendingDraw' = 1]_vars

\* C5 as claimed: a draw pass takes every star to y' = (y + speed) mod h and
\* changes no other field.
C5_StarModulo ==
  [][DrawStep =>
       \A i \in 1 .. Len(stars) :
         stars'[i] = [stars[i] EXCEPT !.y = (@ + stars[i].speed) % (1000 * h)]]_vars

\* C5 as amended: a draw pass takes every star to y' = y + speed when that is at
\* most h, changing no other field; otherwise to y' = 0 with x drawn anew in
\* [0, w), changing no other field.
C5_StarWrap ==
  [][DrawStep =>
       \A i \in 1 .. Len(stars) :
         LET s == stars[i]
             t == stars'[i]
         IN IF s.y + s.speed <= 1000 * h
              THEN t = [s EXCEPT !.y = s.y + s.speed]
              ELSE /\ t.y = 0
                   /\ t.x >= 0
                   /\ t.x < 1000 * w
                   /\ t = [s EXCEPT !.y = 0, !.x = t.x]]_vars

\* C5 witness: no resize has happened and a star that startup spawned below the
\* top has been taken back to y = 0.
C5_Witness ==
  /\ started
  /\ events = 0
  /\ frames >= 2
  /\ \E i \in 1 .. Len(stars) :
       /\ stars[i].y = 0
       /\ NewStar(w, h, 0, i - 1, stars[i].id).y > 0

\* C6: the comet list never holds more than 6 comets; a step adds at most one
\* comet, only when fewer than 6 were listed, and it is no frame, resize, click
\* or supernova-timer step.
C6_CometCap ==
  [][/\ Len(comets') <= 6
     /\ ~(Ids(comets') \subseteq Ids(comets)) =>
          /\ Len(comets) < 6
          /\ Len(comets') = Len(comets) + 1
          /\ frames' = frames
          /\ events' = events]_vars

\* C6 witness: six comets are listed, some of them already moved by a frame.
C6_Witness ==
  /\ Len(comets) = 6
  /\ comets[1].life > 0
  /\ comets[6].life = 0

\* a step that replaces the star list of a started universe
ResizeStep == started /\ stars'[1].id # stars[1].id

\* C7: a resize sets the canvas to the window's size, replaces the stars by 250
\* new ones and the nebulas by max(1, floor(min(w, h) / 600)) new ones, and
\* leaves the comets and the supernovas as they were.
C7_Resize ==
  [][ResizeStep =>
       /\ canvasW' = innerWidth'
       /\ canvasH' = innerHeight'
       /\ Len(stars') = 250
       /\ Len(nebulas') = Max(1, Min(innerWidth', innerHeight') \div 600)
       /\ \A id \in Ids(stars') \cup Ids(nebulas') : id >= nextId
       /\ \A i \in 1 .. Len(stars') :
            stars'[i].x < 1000 * innerWidth' /\ stars'[i].y < 1000 * innerHeight'
       /\ comets' = comets
       /\ supernovas' = supernovas]_vars

\* C7 witness: the stars are not those of startup although frames have run, and
\* comets and a supernova are listed.
C7_Witness ==
  /\ started
  /\ stars[1].id > 1
  /\ Len(nebulas) = 2
  /\ Len(comets) >= 2
  /\ Len(supernovas) >= 1

\* C8: once started, exactly one draw callback is pending, and at most one
\* animate callback, whatever frames, resizes, clicks and timers have run.
C8_OneFramePending ==
  /\ pendingDraw <= 1
  /\ pendingAnimate <= 1
  /\ started => pendingDraw = 1
  /\ ~started => pendingDraw = 0 /\ pendingAnimate = 0

\* C8 witness: frames have run after a resize or click, and both loops have one
\* callback pending.
C8_Witness ==
  /\ frames >= 2
  /\ events >= 1
  /\ clockElapsed > 0
  /\ pendingDraw = 1
  /\ pendingAnimate = 1

\* C9: a status message set by a settled write stays until it is emptied 2000 ms
\* after it was set, also when the click came while an earlier message was shown.
C9_ClearedAfterDelay ==
  [][(copyStatus # "" /\ copyStatus' = "") => statusAge = 2000]_vars

\* C10: every failed clipboard copy ends with the status "Failed to copy" and
\* with no error thrown out of the click listener.
C10_FailureReported ==
  [][copyFailures' > copyFailures =>
       (copyStatus' = "Failed to copy" /\ uncaught' = uncaught)]_vars


\* C11: calling a DOM-widget initializer again changes nothing: the tweet list and
\* the chart stay as they are, and afterwards one click on an FAQ question or on
\* the menu toggle still flips it once, one click on the copy button writes once
\* and one click on the wallet button asks the provider once.
C11_ReinvokeIdempotent ==
  [][/\ started => (tweets' = tweets /\ charts' = charts)
     /\ \A i \in FaqItems : faqClicks'[i] = faqClicks[i] + 1 => faqOpen'[i] = ~faqOpen[i]
     /\ menuClicks' = menuClicks + 1 => menuOpen' = ~menuOpen
     /\ copyClicks' = copyClicks + 1 => writes' = writes + 1
     /\ walletClicks' = walletClicks + 1 => connects' = connects + 1]_vars


\* C12: when an initializer fails at startup, every other initializer still
\* runs: whatever the page lacks, once the DOMContentLoaded listener has run the
\* listeners of every widget whose nodes and libraries are there are registered,
\* the tweets are listed and the chart is drawn.
C12_FailuresContained ==
  started =>
    /\ (env.universe /\ env.ctx2d) => installed["documentClick"] = 1
    /\ env.observer => installed["observer"] = 1
    /\ (env.menuToggle /\ env.menuList) => installed["menu"] = 1
    /\ (env.chartEl /\ env.chartLib) => charts = 1
    /\ env.tweetFeed => Len(tweets) = 6
    /\ (env.copyBtn /\ env.addressEl /\ env.statusEl) => installed["copy"] = 1
    /\ (env.connectBtn /\ env.walletEl) => installed["wallet"] = 1
    /\ env.faq => installed["faq"] = 1
    /\ env.rocket => installed["rocket"] = 1
    /\ env.progressBar => installed["progress"] = 1
    /\ env.dogContainer => installed["dogScroll"] = 1
    /\ (env.dog3d /\ env.three) => installed["dog3d"] = 1

\* C13: on a page lacking a node an initializer needs, that initializer does
\* nothing and nothing of its widget ever happens: none of its callbacks is
\* registered, its state stays as the markup had it, whatever frames, scrolls,
\* resizes and clicks follow, and it is not the initializer that threw.
C13_AbsentNodeNoOp ==
  /\ ~env.universe =>
       /\ installed["universe"] = 0 /\ installed["documentClick"] = 0
       /\ pendingDraw = 0 /\ frames = 0
       /\ stars = <<>> /\ nebulas = <<>> /\ comets = <<>> /\ supernovas = <<>>
       /\ canvasW = 300 /\ canvasH = 150
       /\ startupError # "initUniverse"
  /\ ~(env.copyBtn /\ env.addressEl /\ env.statusEl) =>
       installed["copy"] = 0 /\ writes = 0 /\ timers = <<>> /\ copyStatus = ""
  /\ ~(env.connectBtn /\ env.walletEl) =>
       /\ installed["wallet"] = 0 /\ connects = 0 /\ alerts = <<>>
       /\ walletLabel = "Connect Wallet" /\ ~walletDisabled /\ walletStatus = <<>>
  /\ ~(env.menuToggle /\ env.menuList) =>
       installed["menu"] = 0 /\ ~menuOpen /\ menuAria = "false"
  /\ ~env.chartEl => charts = 0 /\ startupError # "initChart"
  /\ ~env.tweetFeed => tweets = <<>>
  /\ ~env.rocket =>
       installed["rocket"] = 0 /\ rocket.animation = "css" /\ rocket.transform.progress = 0
  /\ ~env.dogContainer => installed["dogScroll"] = 0 /\ domDog.translateX = 0
  /\ ~env.progressBar => installed["progress"] = 0 /\ progressHeight = 0
  /\ ~env.dog3d =>
       installed["dog3d"] = 0 /\ pendingAnimate = 0 /\ rendererSize = <<0, 0>>
       /\ clockElapsed = 0

\* C13 witness: a page without its copy status node has loaded, been scrolled and
\* resized, and its copy button and menu toggle have been clicked or a frame run.
C13_Witness ==
  /\ started
  /\ ~env.statusEl
  /\ scrollTop = 500
  /\ events >= 1
  /\ frames >= 2
  /\ installed["menu"] = 1


\* C14: whatever the markup, every click on an FAQ question flips the item, so
\* that two clicks return it to its original state, and leaves aria-expanded
\* "true" exactly when the item is open and the max-height set exactly when the
\* item is open.
C14_AccordionToggle ==
  [][\A i \in FaqItems :
       faqClicks'[i] = faqClicks[i] + 1 =>
         /\ faqOpen'[i] = ~faqOpen[i]
         /\ (faqAria'[i] = "true") = faqOpen'[i]
         /\ (faqAria'[i] = "false") = ~faqOpen'[i]
         /\ (faqMaxHeight'[i] # "") = faqOpen'[i]]_vars

\* C14 witness: an item whose markup had it open has been
\* clicked twice and is open again.
C14_Witness ==
  /\ faqClicks[1] = 2
  /\ faqOpen[1]
  /\ faqAria[1] = "true"
  /\ faqMaxHeight[1] = FAQ_HEIGHT

\* C15: whatever the markup, after every click on the menu toggle its
\* aria-expanded is "true" if and only if the menu list has the class open.
C15_MenuAriaInSync ==
  [][menuClicks' = menuClicks + 1 => ((menuAria' = "true") = menuOpen')]_vars

\* C16: a click on the wallet button without a provider shows the alert and
\* nothing else: no connect() request, label, disabled flag and status text
\* unchanged; with a provider, injected late or not, the click requests connect()
\* and shows no alert.
C16_NoProviderAlert ==
  [][walletClicks' = walletClicks + 1 =>
       IF ~solana
         THEN /\ alerts' = Append(alerts, ALERT_NO_WALLET)
              /\ connects' = connects
              /\ walletLabel' = walletLabel
              /\ walletDisabled' = walletDisabled
              /\ walletStatus' = walletStatus
         ELSE /\ connects' = connects + 1
              /\ alerts' = alerts]_vars

\* C16 witness: a click without provider was answered by the alert, the provider
\* was injected, and the next click has a connect() request in flight.
C16_Witness ==
  /\ walletClicks = 2
  /\ alerts = <<ALERT_NO_WALLET>>
  /\ solana
  /\ connects = 1

\* C17: when connect() resolves, the status shows the address truncated, never a
\* full public key (32 to 44 characters); when it rejects, the error alert is
\* shown and the status text stays as it was.
C17_TruncatedAddress ==
  [][/\ (connects' = connects - 1 /\ walletLabel' = "Connected") =>
          /\ walletStatus' # <<>>
          /\ Tail(walletStatus') \notin Addresses
     /\ (connects' = connects - 1 /\ walletLabel' # "Connected") =>
          /\ alerts' = Append(alerts, ALERT_FAILED)
          /\ walletStatus' = walletStatus]_vars


\* the scroll fraction and pointer offset of a logged mascot pass
MascotInputs(e) == <<e.percent, e.mouseX, e.mouseY>>

\* C18 as claimed: two draw passes with the same scroll fraction and the same
\* pointer offset draw the mascot with the same (x, y, rotation, scale), whatever
\* happened between them.
C18_PureInScrollAndPointer ==
  \A i, j \in 1 .. Len(mascotLog) :
    MascotInputs(mascotLog[i]) = MascotInputs(mascotLog[j])
      => mascotLog[i].transform = mascotLog[j].transform

\* C18 as amended: two draw passes with the same scroll fraction, the same
\* pointer offset and the same canvas size (w, h) draw the mascot with the same
\* (x, y, rotation, scale), whatever happened between them.
C18_PureInScrollPointerAndSize ==
  \A i, j \in 1 .. Len(mascotLog) :
    (/\ MascotInputs(mascotLog[i]) = MascotInputs(mascotLog[j])
     /\ mascotLog[i].w = mascotLog[j].w
     /\ mascotLog[i].h = mascotLog[j].h)
      => mascotLog[i].transform = mascotLog[j].transform

\* C18 witness: the mascot was drawn in two passes with the same inputs, scrolled
\* and pointed away from their initial values, with a resize, click or timer
\* tick handled since startup.
C18_Witness ==
  /\ Len(mascotLog) = 2
  /\ mascotLog[1] = mascotLog[2]
  /\ mascotLog[1].percent # 0
  /\ mascotLog[1].mouseX # 0
  /\ events = 1

\* a step in which animate() runs
AnimateStep == pendingAnimate > 0 /\ clockElapsed' > clockElapsed

\* position and velocity of one coordinate of the 3D mascot after delta ms
Bounced(pos, vel, delta, limit) ==
  LET p == pos + (vel * delta) \div 1000
  IN <<IF p > limit THEN limit ELSE IF p < -limit THEN -limit ELSE p,
       IF p > limit \/ p < -limit THEN -vel ELSE vel>>

C20_FractionInRange ==
  /\ \A i \in 1 .. Len(mascotLog) : mascotLog[i].percent >= 0 /\ mascotLog[i].percent <= 1000
  /\ domDog.translateX >= -150000
  /\ domDog.translateX <= 1000 * innerWidth + 150000
  /\ progressHeight >= 0
  /\ progressHeight <= 1000
  /\ ~rocket.transform.nan
  /\ rocket.transform.progress >= 0
  /\ rocket.transform.progress <= 1000


\* C21: at most one connect() request is in flight; the wallet button is disabled
\* exactly while a request is in flight, a request is issued only by a click on
\* the enabled button and disables it in the same step; the step that settles the
\* request enables the button with the label "Connected" (resolved) or
\* "Connect Wallet" (rejected); the label is "Connected" only while the status
\* shows "Connected: " followed by an address.
C21_OneRequestInFlight ==
  /\ [](/\ connects <= 1
        /\ walletDisabled <=> connects = 1
        /\ walletLabel = "Connected" =>
             \E addr \in Addresses : walletStatus = ConnectedText(addr))
  /\ [][/\ connects' > connects => ~walletDisabled /\ walletDisabled'
        /\ connects' < connects =>
             /\ ~walletDisabled'
             /\ walletLabel' = IF alerts' = alerts THEN "Connected" ELSE "Connect Wallet"]_vars

\* C21 witness: the third request is in flight and the button is disabled, after
\* one request resolved and one was rejected.
C21_Witness ==
  /\ connects = 1
  /\ walletDisabled
  /\ walletClicks = 3
  /\ walletStatus = ConnectedText(Address(32))
  /\ alerts = <<ALERT_FAILED>>


\* the ids of the comets and supernovas in the lists
Particles == Ids(comets) \cup Ids(supernovas)

\* the ids of the particles spawned after startup in a 320 x 480 window: startup
\* allocates the ids up to STAR_COUNT + NebCount(320, 480)
LiveIds == {STAR_COUNT + NebCount(320, 480) + k : k \in 1 .. MaxLiveSpawns}

\* C22: with frames executed for as long as draw is scheduled, every comet and
\* every supernova in the lists is eventually removed from them; no supernova in
\* the list has had 67 updates and no comet 500.
C22_EventuallyRemoved ==
  /\ [](/\ \A i \in 1 .. Len(supernovas) : supernovas[i].radius < 67 * RADIUS_INCREMENT
        /\ \A i \in 1 .. Len(comets) : comets[i].life < 500 * 1000)
  /\ \A id \in LiveIds : (id \in Particles) ~> (id \notin Particles)

\* C22 witness: two particles were spawned, more frames than the longest life
\* have been drawn and both lists are empty.
C22_Witness ==
  /\ nextId = 1 + StartupObjects + 2
  /\ frames > 500
  /\ comets = <<>>
  /\ supernovas = <<>>

====
